---- MODULE Spec2Model ----
(***************************************************************************)
(* Model of smartcharge_helper_pvpc/server.py: one tool call travelling    *)
(* through call_tool -> get_best_charging_hours / get_current_pvpc_prices  *)
(* -> get_pvpc_prices -> parse_hourly_prices -> generate_hour_range ->     *)
(* find_best_consecutive_hours -> result.                                  *)
(*                                                                         *)
(* Units.  The REE payload gives prices in EUR/MWh with two decimals; a    *)
(* reading's value is held as an integer count of 0.01 EUR/MWh.  Prices    *)
(* per kWh are held as integer counts of 0.00001 EUR/kWh, rounded prices   *)
(* (4 decimals) as counts of 0.0001 EUR/kWh, costs (2 decimals) as cents,  *)
(* kwh as tenths of a kWh.  Sums and means are exact rationals (a mean is  *)
(* the pair sum, len); binary floating point is modelled only where the    *)
(* code's result depends on it (the quotient kwh / 7.4 at a half).         *)
(***************************************************************************)
EXTENDS Integers, Sequences, FiniteSets, TLC

VARIABLES pc, name, arguments, upstream, date, pvpc_data, hourly_prices,
          hour_range, hours_needed, quotient_below, best_hours,
          best_avg_price, result, raised, output

vars == <<pc, name, arguments, upstream, date, pvpc_data, hourly_prices,
          hour_range, hours_needed, quotient_below, best_hours,
          best_avg_price, result, raised, output>>

\* A value that may be missing (Python's None, an absent dict key, a local not
\* yet assigned) is a set: {} when missing, {v} when present.
None == {}

Some(v) == {v}

The(o) == CHOOSE v \in o : TRUE

Get(o, default) == IF o = None THEN default ELSE The(o)

(***************************************************************************)
(* Bounds of the model.                                                    *)
(***************************************************************************)
MaxSeries == 4

MaxBundle == 2

MaxReadings == 3

(***************************************************************************)
(* Generic helpers.                                                        *)
(***************************************************************************)
Max(a, b) == IF a >= b THEN a ELSE b

Min(a, b) == IF a <= b THEN a ELSE b

Range(s) == {s[i] : i \in DOMAIN s}

\* Python's range(a, b) as a sequence: a, a+1, ..., b-1 (empty when b <= a).
PyRange(a, b) == [i \in 1..Max(0, b - a) |-> a + i - 1]

\* Python's s[i:j] for 0 <= i <= j, with j cut at len(s); i, j are 0-based.
Slice(s, i, j) == SubSeq(s, i + 1, Min(j, Len(s)))

RECURSIVE SumSeq(_)
SumSeq(s) == IF s = <<>> THEN 0 ELSE Head(s) + SumSeq(Tail(s))

RECURSIVE SelectSeqBy(_, _)
\* [x for x in s if Keep[x]] with Keep given as a set of kept hours.
SelectSeqBy(s, keep) ==
    IF s = <<>> THEN <<>>
    ELSE IF Head(s).hour \in keep
         THEN <<Head(s)>> \o SelectSeqBy(Tail(s), keep)
         ELSE SelectSeqBy(Tail(s), keep)

\* floor(num / den) for den > 0
FloorDiv(num, den) == num \div den

\* Python's round(x, k) on the exact value num/den, in units of the k-th
\* decimal: nearest integer, ties to even.
RoundHalfEven(num, den) ==
    LET q == num \div den
        r == num % den
    IN  IF 2 * r < den THEN q
        ELSE IF 2 * r > den THEN q + 1
        ELSE IF q % 2 = 0 THEN q ELSE q + 1

\* "needle in hay" for Python strings, held as sequences of characters.
Contains(hay, needle) ==
    \E i \in 0..(Len(hay) - Len(needle)) :
        SubSeq(hay, i + 1, i + Len(needle)) = needle


(***************************************************************************)
(* Errors.  create_error wraps a message in McpError; str(e) of an         *)
(* exception is its message.  A message is a format text and its argument  *)
(* (a sequence of strings, empty when the text has no placeholder).        *)
(***************************************************************************)
Message(text, arg) == [text |-> text, arg |-> arg]

create_error(message) == [type |-> "McpError", message |-> message]

OtherError(type, text) == [type |-> type, message |-> Message(text, <<>>)]

Ok(v) == [ok |-> TRUE, value |-> v]

Err(e) == [ok |-> FALSE, error |-> e]

(***************************************************************************)
(* Date validation: datetime.strptime(date, "%Y-%m-%d").  A date string is *)
(* a sequence of characters.                                               *)
(***************************************************************************)
Digits == <<"0", "1", "2", "3", "4", "5", "6", "7", "8", "9">>

DigitChars == Range(Digits)

DigitVal(c) == (CHOOSE i \in DOMAIN Digits : Digits[i] = c) - 1

RECURSIVE SplitDash(_, _)
\* s.split("-"), cur being the part read so far
SplitDash(s, cur) ==
    IF s = <<>> THEN <<cur>>
    ELSE IF Head(s) = "-" THEN <<cur>> \o SplitDash(Tail(s), <<>>)
    ELSE SplitDash(Tail(s), Append(cur, Head(s)))

RECURSIVE NumVal(_, _)
NumVal(s, acc) ==
    IF s = <<>> THEN acc ELSE NumVal(Tail(s), 10 * acc + DigitVal(Head(s)))

IsLeap(y) == (y % 4 = 0 /\ y % 100 # 0) \/ y % 400 = 0

DaysInMonth(y, m) ==
    IF m = 2 THEN (IF IsLeap(y) THEN 29 ELSE 28)
    ELSE IF m \in {4, 6, 9, 11} THEN 30 ELSE 31

\* TRUE iff strptime(s, "%Y-%m-%d") does not raise ValueError: four digits,
\* a month of one or two digits in 1..12, a day of one or two digits that
\* exists in that month.
strptime_ok(s) ==
    LET parts == SplitDash(s, <<>>)
    IN  /\ Len(parts) = 3
        /\ \A i \in 1..3 : parts[i] # <<>> /\ Range(parts[i]) \subseteq DigitChars
        /\ Len(parts[1]) = 4
        /\ Len(parts[2]) \in 1..2
        /\ Len(parts[3]) \in 1..2
        /\ LET y == NumVal(parts[1], 0)
               m == NumVal(parts[2], 0)
               d == NumVal(parts[3], 0)
           IN  y >= 1 /\ m \in 1..12 /\ d \in 1..DaysInMonth(y, m)

\* datetime.now().strftime("%Y-%m-%d"): some valid date
Today == <<"2", "0", "2", "4", "-", "1", "0", "-", "2", "7">>

(***************************************************************************)
(* get_pvpc_prices.  The upstream answer is                                *)
(*   net: "ok" | "timeout" | "connect_error"                               *)
(*   status_code, json ("object" | "invalid"), included (a sequence of     *)
(*   items), item = [type, id, values]; included, type, id and values are  *)
(*   optional (None when the key is missing).                              *)
(***************************************************************************)
PVPC == <<"P", "V", "P", "C">>

\* "PVPC" in item.get("type", "") or "PVPC" in item.get("id", "")
IsPvpcTypeOrIdContains(item) ==
    \/ (item.type # None /\ Contains(The(item.type), PVPC))
    \/ Contains(Get(item.id, <<>>), PVPC)

\* line 100: item.get("type") == "PVPC" or "PVPC" in item.get("id", "")
IsPvpcItem(item) ==
    \/ item.type = Some(PVPC)
    \/ Contains(Get(item.id, <<>>), PVPC)

RECURSIVE FirstMatch(_)
\* the for ... break loop of lines 98-102: the first matching item, or None
FirstMatch(included) ==
    IF included = <<>> THEN None
    ELSE IF IsPvpcItem(Head(included)) THEN Some(Head(included))
    ELSE FirstMatch(Tail(included))

StatusText(code) ==
    <<Digits[(((code \div 100) % 10)) + 1], Digits[(((code \div 10) % 10)) + 1],
      Digits[(code % 10) + 1]>>

get_pvpc_prices(d, resp) ==
    IF resp.net = "timeout"
    THEN Err(create_error(Message("Timeout querying REE API", <<>>)))
    ELSE IF resp.net = "connect_error"
    THEN Err(create_error(Message("Connection error with REE API: ", <<"connect">>)))
    ELSE IF resp.status_code = 404
    THEN Err(create_error(Message("No price data available for date ", d)))
    ELSE IF resp.status_code # 200
    THEN Err(create_error(Message("REE API error: ", StatusText(resp.status_code))))
    ELSE IF resp.json = "invalid"
    THEN Err(OtherError("JSONDecodeError", "Expecting value"))
    ELSE IF Get(resp.included, <<>>) = <<>>
    THEN Err(create_error(Message("No price data available for date ", d)))
    ELSE LET pvpc == FirstMatch(The(resp.included))
         IN  IF pvpc = None
             THEN Err(create_error(Message("No PVPC data available for date ", d)))
             ELSE IF Get(The(pvpc).values, <<>>) = <<>>
             THEN Err(create_error(Message("No PVPC data available for date ", d)))
             ELSE Ok(The(pvpc))

(***************************************************************************)
(* parse_hourly_prices.  A reading is [datetime |-> [hour, offset],        *)
(* value]; datetime.fromisoformat(...).hour is the wall-clock hour written *)
(* in the timestamp, whatever its offset.                                  *)
(***************************************************************************)
HourOf(datetime) == datetime.hour

\* price_mwh / 1000: a count of 0.01 EUR/MWh is 1000 counts of 0.00001 EUR/MWh,
\* and a thousandth of them is the count of 0.00001 EUR/kWh
PriceKwh(price_mwh) == (price_mwh * 1000) \div 1000

RECURSIVE InsertByHour(_, _)
\* insert after every entry whose hour is <= e.hour (list.sort is stable)
InsertByHour(sorted, e) ==
    IF sorted = <<>> THEN <<e>>
    ELSE IF Head(sorted).hour <= e.hour
         THEN <<Head(sorted)>> \o InsertByHour(Tail(sorted), e)
         ELSE <<e>> \o sorted

RECURSIVE SortByHour(_)
SortByHour(s) ==
    IF s = <<>> THEN <<>>
    ELSE InsertByHour(SortByHour(SubSeq(s, 1, Len(s) - 1)), s[Len(s)])

SortPrices(prices) == SortByHour(prices)

parse_hourly_prices(data) ==
    LET values == The(data.values)
    IN  SortPrices([i \in DOMAIN values |->
                       [hour |-> HourOf(values[i].datetime),
                        price |-> PriceKwh(values[i].value)]])

(***************************************************************************)
(* generate_hour_range                                                     *)
(***************************************************************************)
generate_hour_range_short(start, end) ==
    IF start <= end
    THEN PyRange(start, end + 1)
    ELSE PyRange(start, 24) \o PyRange(0, end)

generate_hour_range(start, end) ==
    IF start <= end
    THEN PyRange(start, end + 1)
    ELSE PyRange(start, 24) \o PyRange(0, end + 1)


(***************************************************************************)
(* find_best_consecutive_hours.  kwh is held in tenths of a kWh, so the    *)
(* quotient kwh / 7.4 is kwh / 74.  When the decimal quotient lies exactly *)
(* on a half, the double the code computes is either that half             *)
(* (18.5 / 7.4 = 2.5) or the double just below it (11.1 / 7.4 =            *)
(* 1.4999999999999998): `below` says which.                                *)
(***************************************************************************)
OnHalf(kwh) == (2 * kwh + 74) % 148 = 0

BelowChoices(kwh) == IF OnHalf(kwh) THEN BOOLEAN ELSE {FALSE}

\* int(x + 0.5) for the computed quotient x
IntOfQuotientPlusHalf(kwh, below) ==
    FloorDiv(2 * kwh + 74, 148) - (IF below /\ OnHalf(kwh) THEN 1 ELSE 0)

\* Python's round(kwh / charger_power_kw): ties to even
HoursNeededHalfEven(kwh, below) ==
    Max(1, IF below /\ OnHalf(kwh) THEN FloorDiv(kwh, 74)
           ELSE RoundHalfEven(kwh, 74))

\* line 186: max(1, int((kwh / charger_power_kw) + 0.5))
HoursNeeded(kwh, below) == Max(1, IntOfQuotientPlusHalf(kwh, below))

\* a mean is the exact rational sum / len; float('inf') is 1 / 0
Inf == [sum |-> 1, len |-> 0]

Mean(window) ==
    [sum |-> SumSeq([i \in DOMAIN window |-> window[i].price]),
     len |-> Len(window)]

HoursOfWindow(window) == [i \in DOMAIN window |-> window[i].hour]

Less(a, b) == a.sum * b.len < b.sum * a.len

LessOrEqual(a, b) == a.sum * b.len <= b.sum * a.len

BetterOrEqual(avg_price, best) == LessOrEqual(avg_price, best)

\* line 200: avg_price < best_avg_price
Better(avg_price, best) == Less(avg_price, best)

\* line 196: range(len(filtered_prices) - hours_needed + 1)
WindowStartsShort(len, n) == PyRange(0, len - n)

WindowStarts(len, n) == PyRange(0, len - n + 1)

\* line 197: filtered_prices[i:i + hours_needed]
WindowOneLonger(filtered, i, n) == Slice(filtered, i, i + n + 1)

Window(filtered, i, n) == Slice(filtered, i, i + n)

RECURSIVE SearchWindows(_, _, _, _)
\* the loop of lines 196-202 over the remaining start positions
SearchWindows(filtered, n, starts, best) ==
    IF starts = <<>> THEN best
    ELSE LET window == Window(filtered, Head(starts), n)
             avg_price == Mean(window)
         IN  SearchWindows(filtered, n, Tail(starts),
                 IF Better(avg_price, best.avg)
                 THEN [hours |-> HoursOfWindow(window), avg |-> avg_price]
                 ELSE best)

\* line 177: [(h, p) for h, p in prices if h in hour_range]
FilterPrices(prices, range) == SelectSeqBy(prices, Range(range))

\* lines 189-190
Clamp(needed, len) == IF needed > len THEN len ELSE needed

find_best_consecutive_hours(prices, range, kwh, below) ==
    LET filtered_prices == FilterPrices(prices, range)
    IN  IF filtered_prices = <<>>
        THEN Err(create_error(
                 Message("No prices available in specified hour range", <<>>)))
        ELSE LET needed == HoursNeeded(kwh, below)
                 n == Clamp(needed, Len(filtered_prices))
                 best == SearchWindows(filtered_prices, n,
                             WindowStarts(Len(filtered_prices), n),
                             [hours |-> <<>>, avg |-> Inf])
             IN  Ok([hours |-> best.hours, avg |-> best.avg, needed |-> needed])


(***************************************************************************)
(* Results.                                                                *)
(***************************************************************************)
\* f"{hour:02d}:00"
FormatHour(hour) ==
    <<Digits[(hour \div 10) + 1], Digits[(hour % 10) + 1], ":", "0", "0">>

\* round(price, 4) of a price in counts of 0.00001, in counts of 0.0001
Round4(price) == RoundHalfEven(price, 10)

\* round(avg_price, 4) of a mean of such prices
Round4Mean(avg) == RoundHalfEven(avg.sum, 10 * avg.len)

\* round(kwh * avg_price, 2) in cents: kwh/10 * (sum/len) / 100000 EUR
Round2Cost(kwh, avg) == RoundHalfEven(kwh * avg.sum, 10000 * avg.len)

\* lines 233-261 of get_best_charging_hours, for a non-empty hours
ChargingRecommendation(d, kwh, hours, avg_price) ==
    LET formatted_hours == [i \in DOMAIN hours |-> FormatHour(hours[i])]
    IN  [recommended_hours |-> formatted_hours,
         average_price_eur_kwh |-> Round4Mean(avg_price),
         total_cost_eur |-> Round2Cost(kwh, avg_price),
         explanation |->
             IF Len(hours) = 1
             THEN [text |-> "Recommended charging time",
                   start_time |-> formatted_hours[1],
                   end_time |-> <<>>,
                   cost |-> Round2Cost(kwh, avg_price),
                   price |-> Round4Mean(avg_price)]
             ELSE [text |-> "Recommended charging period",
                   start_time |-> formatted_hours[1],
                   end_time |-> FormatHour(hours[Len(hours)] + 1),
                   cost |-> Round2Cost(kwh, avg_price),
                   price |-> Round4Mean(avg_price)],
         query_date |-> d]

RECURSIVE MinSeq(_)
MinSeq(s) == IF Len(s) = 1 THEN s[1] ELSE Min(s[1], MinSeq(Tail(s)))

RECURSIVE MaxSeq(_)
MaxSeq(s) == IF Len(s) = 1 THEN s[1] ELSE Max(s[1], MaxSeq(Tail(s)))

\* the mean of the prices already rounded to 4 decimals, rounded again
AveragePriceOfRounded(prices_only) ==
    RoundHalfEven(SumSeq([i \in DOMAIN prices_only |-> Round4(prices_only[i])]),
                  Len(prices_only))

\* line 296: round(sum(prices_only) / len(prices_only), 4)
AveragePrice(prices_only) ==
    RoundHalfEven(SumSeq(prices_only), 10 * Len(prices_only))

\* lines 280-297 of get_current_pvpc_prices
PVPCData(d, prices) ==
    LET prices_only == [i \in DOMAIN prices |-> prices[i].price]
    IN  [date |-> d,
         hourly_prices |-> [i \in DOMAIN prices |->
                               [hour |-> FormatHour(prices[i].hour),
                                price_eur_kwh |-> Round4(prices[i].price)]],
         min_price |-> Round4(MinSeq(prices_only)),
         max_price |-> Round4(MaxSeq(prices_only)),
         average_price |-> AveragePrice(prices_only)]

(***************************************************************************)
(* call_tool's boundary: what the caller of call_tool gets.                *)
(***************************************************************************)
GET_BEST_CHARGING_HOURS == "get_best_charging_hours"

GET_CURRENT_PVPC_PRICES == "get_current_pvpc_prices"

\* lines 382-387
JsonText(res) == [type |-> "text", kind |-> "json", body |-> Some(res),
                  prefix |-> "", message |-> None]

\* a handler that lets everything but McpError through
CatchMcpErrorOnly(e) ==
    IF e.type = "McpError"
    THEN [type |-> "text", kind |-> "error", body |-> None,
          prefix |-> "Error in charging advisor: ", message |-> Some(e.message)]
    ELSE [type |-> "exception", kind |-> "propagated", body |-> None,
          prefix |-> "", message |-> Some(e.message)]

\* lines 389-391: except Exception as e
Catch(e) ==
    [type |-> "text", kind |-> "error", body |-> None,
     prefix |-> "Error in charging advisor: ", message |-> Some(e.message)]

\* an exception raised anywhere below call_tool ends the call in its handler
Raise(e) ==
    /\ raised' = Some(e)
    /\ output' = Some(Catch(e))
    /\ pc' = "done"

(***************************************************************************)
(* The steps of one call.                                                  *)
(***************************************************************************)
\* lines 364-380: dispatch on the tool name
CallTool ==
    /\ pc = "call"
    /\ IF name \in {GET_BEST_CHARGING_HOURS, GET_CURRENT_PVPC_PRICES}
       THEN /\ pc' = "validate"
            /\ UNCHANGED <<raised, output>>
       ELSE Raise(create_error(Message("Unknown tool: ", <<name>>)))
    /\ UNCHANGED <<name, arguments, upstream, date, pvpc_data, hourly_prices,
                   hour_range, hours_needed, quotient_below, best_hours,
                   best_avg_price, result>>

\* lines 211-219 and 266-274
ValidateDate ==
    /\ pc = "validate"
    /\ LET d == Get(arguments.date, Today)
       IN  IF strptime_ok(d)
           THEN /\ date' = d
                /\ pc' = "fetch"
                /\ UNCHANGED <<raised, output>>
           ELSE /\ Raise(create_error(
                       Message("Invalid date format. Use YYYY-MM-DD", <<>>)))
                /\ UNCHANGED date
    /\ UNCHANGED <<name, arguments, upstream, pvpc_data, hourly_prices,
                   hour_range, hours_needed, quotient_below, best_hours,
                   best_avg_price, result>>

\* lines 222 and 277
GetPvpcPrices ==
    /\ pc = "fetch"
    /\ LET r == get_pvpc_prices(date, upstream)
       IN  IF r.ok
           THEN /\ pvpc_data' = Some(r.value)
                /\ pc' = "parse"
                /\ UNCHANGED <<raised, output>>
           ELSE /\ Raise(r.error)
                /\ UNCHANGED pvpc_data
    /\ UNCHANGED <<name, arguments, upstream, date, hourly_prices, hour_range,
                   hours_needed, quotient_below, best_hours, best_avg_price,
                   result>>

\* lines 223 and 278
ParseHourlyPrices ==
    /\ pc = "parse"
    /\ hourly_prices' = parse_hourly_prices(The(pvpc_data))
    /\ pc' = IF name = GET_BEST_CHARGING_HOURS THEN "range" ELSE "summary"
    /\ UNCHANGED <<name, arguments, upstream, date, pvpc_data, hour_range,
                   hours_needed, quotient_below, best_hours, best_avg_price,
                   result, raised, output>>

\* line 226, with the defaults of lines 369-370
GenerateHourRange ==
    /\ pc = "range"
    /\ hour_range' = generate_hour_range(Get(arguments.start_hour, 22),
                                         Get(arguments.end_hour, 7))
    /\ pc' = "find"
    /\ UNCHANGED <<name, arguments, upstream, date, pvpc_data, hourly_prices,
                   hours_needed, quotient_below, best_hours, best_avg_price,
                   result, raised, output>>

\* lines 229-231, with the default of line 371 (10.0 kWh)
FindBestConsecutiveHours ==
    /\ pc = "find"
    /\ \E below \in BelowChoices(Get(arguments.kwh, 100)) :
         LET r == find_best_consecutive_hours(hourly_prices, hour_range,
                                              Get(arguments.kwh, 100), below)
         IN  IF r.ok
             THEN /\ best_hours' = r.value.hours
                  /\ best_avg_price' = r.value.avg
                  /\ hours_needed' = r.value.needed
                  /\ quotient_below' = below
                  /\ pc' = "recommend"
                  /\ UNCHANGED <<raised, output>>
             ELSE /\ Raise(r.error)
                  /\ UNCHANGED <<best_hours, best_avg_price, hours_needed,
                                 quotient_below>>
    /\ UNCHANGED <<name, arguments, upstream, date, pvpc_data, hourly_prices,
                   hour_range, result>>

\* lines 233-261
BuildRecommendation ==
    /\ pc = "recommend"
    /\ IF best_hours = <<>>
       THEN \* formatted_hours[0] of line 247 on an empty list
            /\ Raise(OtherError("IndexError", "list index out of range"))
            /\ UNCHANGED result
       ELSE /\ result' = Some(ChargingRecommendation(date,
                               Get(arguments.kwh, 100), best_hours,
                               best_avg_price))
            /\ pc' = "return"
            /\ UNCHANGED <<raised, output>>
    /\ UNCHANGED <<name, arguments, upstream, date, pvpc_data, hourly_prices,
                   hour_range, hours_needed, quotient_below, best_hours,
                   best_avg_price>>

\* lines 280-297
BuildSummary ==
    /\ pc = "summary"
    /\ result' = Some(PVPCData(date, hourly_prices))
    /\ pc' = "return"
    /\ UNCHANGED <<name, arguments, upstream, date, pvpc_data, hourly_prices,
                   hour_range, hours_needed, quotient_below, best_hours,
                   best_avg_price, raised, output>>

\* lines 382-387
ReturnResult ==
    /\ pc = "return"
    /\ output' = Some(JsonText(The(result)))
    /\ pc' = "done"
    /\ UNCHANGED <<name, arguments, upstream, date, pvpc_data, hourly_prices,
                   hour_range, hours_needed, quotient_below, best_hours,
                   best_avg_price, result, raised>>

Next ==
    \/ CallTool
    \/ ValidateDate
    \/ GetPvpcPrices
    \/ ParseHourlyPrices
    \/ GenerateHourRange
    \/ FindBestConsecutiveHours
    \/ BuildRecommendation
    \/ BuildSummary
    \/ ReturnResult


(***************************************************************************)
(* Inputs: the tool call and what the REE API answers.                     *)
(***************************************************************************)
SeqsUpTo(S, n) == UNION {[1..k -> S] : k \in 0..n}

Reading(hour, offset, value) ==
    [datetime |-> [hour |-> hour, offset |-> offset], value |-> value]

Item(type, id, values) == [type |-> type, id |-> id, values |-> values]

Response(net, status_code, json, included) ==
    [net |-> net, status_code |-> status_code, json |-> json,
     included |-> included]

OkResponse(items) == Response("ok", 200, "object", Some(items))

\* the bundle REE sends: the PVPC series and the spot-market series
PvpcResponse(values) ==
    OkResponse(<<Item(Some(PVPC), Some(<<"1", "0", "0", "1">>), Some(values)),
                 Item(Some(<<"s", "p", "o", "t">>), Some(<<"6", "0", "0">>),
                      Some(values))>>)

\* a complete day: one reading per hour 0..23, in time order
DayResponse(price) ==
    PvpcResponse([i \in 1..24 |-> Reading(i - 1, 1, price[i - 1])])

Arguments(d, start_hour, end_hour, kwh) ==
    [date |-> d, start_hour |-> start_hour, end_hour |-> end_hour, kwh |-> kwh]

\* calls of get_best_charging_hours
BestCalls(dates, starts, ends, kwhs) ==
    {<<GET_BEST_CHARGING_HOURS, Arguments(d, s, e, k)>> :
        d \in dates, s \in starts, e \in ends, k \in kwhs}

\* calls of a tool that takes a date only
DateCalls(names, dates) ==
    {<<n, Arguments(d, None, None, None)>> : n \in names, d \in dates}

InitWith(calls, responses) ==
    /\ pc = "call"
    /\ \E c \in calls : name = c[1] /\ arguments = c[2]
    /\ upstream \in responses
    /\ date = <<>>
    /\ pvpc_data = None
    /\ hourly_prices = <<>>
    /\ hour_range = <<>>
    /\ hours_needed = 0
    /\ quotient_below = FALSE
    /\ best_hours = <<>>
    /\ best_avg_price = Inf
    /\ result = None
    /\ raised = None
    /\ output = None

ValidDate == <<"2", "0", "2", "4", "-", "0", "1", "-", "1", "5">>

DayFirstDate == <<"1", "5", "-", "0", "1", "-", "2", "0", "2", "4">>

NoSuchDay == <<"2", "0", "2", "3", "-", "0", "2", "-", "2", "9">>

\* a day with every hour at `high` but the hours of `cheap`, at `low`
CheapDay(cheap, low, high) == [h \in 0..23 |-> IF h \in cheap THEN low ELSE high]

(***************************************************************************)
(* Spec: calls of every tool, with every way the pipeline fails.           *)
(***************************************************************************)
FailingResponses ==
    {Response("timeout", 0, "invalid", None),
     Response("connect_error", 0, "invalid", None),
     Response("ok", 404, "object", None),
     Response("ok", 500, "object", None),
     Response("ok", 503, "invalid", None),
     Response("ok", 200, "invalid", None),
     Response("ok", 200, "object", None),
     OkResponse(<<>>),
     OkResponse(<<Item(Some(<<"s", "p", "o", "t">>), Some(<<"6", "0", "0">>),
                       Some(<<Reading(0, 1, 5000)>>))>>),
     OkResponse(<<Item(Some(PVPC), None, None)>>),
     OkResponse(<<Item(Some(PVPC), None, Some(<<>>))>>)}

SmallResponses ==
    {PvpcResponse(v) :
        v \in {<<Reading(0, 1, 5000)>>,
               <<Reading(23, 1, 12345), Reading(0, 1, 5000)>>,
               <<Reading(0, 1, 5000), Reading(1, 1, 7004), Reading(23, 1, 3014)>>}}

Init ==
    InitWith(BestCalls({None, Some(ValidDate), Some(DayFirstDate), Some(NoSuchDay)},
                       {None, Some(0), Some(5)}, {None, Some(5), Some(23)},
                       {None, Some(1), Some(148)})
             \cup DateCalls({GET_CURRENT_PVPC_PRICES, "get_weather"},
                            {None, Some(ValidDate), Some(DayFirstDate)}),
             FailingResponses \cup SmallResponses)

Spec == Init /\ [][Next]_vars


(***************************************************************************)
(* C5.  Whatever the tool name and whatever fails below call_tool, the     *)
(* call ends with one text payload "Error in charging advisor: <message>"  *)
(* carrying the message of the error raised, and no error leaves           *)
(* call_tool; a call in which nothing is raised ends with the JSON of its  *)
(* result and no error text.                                               *)
(***************************************************************************)
C5_ErrorsBecomeText ==
    /\ (pc # "done") => output = None
    /\ (pc = "done") =>
          /\ output # None
          /\ The(output).type = "text"
          /\ The(output).kind # "propagated"
          /\ IF raised # None
             THEN /\ The(output).kind = "error"
                  /\ The(output).prefix = "Error in charging advisor: "
                  /\ The(output).message = Some(The(raised).message)
                  /\ The(output).body = None
             ELSE /\ The(output).kind = "json"
                  /\ result # None
                  /\ The(output).body = result
                  /\ The(output).message = None

\* a failure that is not an McpError (the body of a 200 answer is not JSON)
\* has ended a call in an error text
C5_Witness ==
    /\ pc = "done"
    /\ raised # None
    /\ The(raised).type = "JSONDecodeError"
    /\ output # None
    /\ The(output).kind = "error"

(***************************************************************************)
(* SpecRange: every (start_hour, end_hour) of 0..23 x 0..23.               *)
(***************************************************************************)
InitRange ==
    InitWith(BestCalls({None}, {Some(h) : h \in 0..23}, {Some(h) : h \in 0..23},
                       {Some(148)})
             \cup DateCalls({GET_CURRENT_PVPC_PRICES}, {None}),
             {DayResponse(CheapDay({3, 4}, 5000, 12000))})

SpecRange == InitRange /\ [][Next]_vars

start_hour == Get(arguments.start_hour, 22)

end_hour == Get(arguments.end_hour, 7)

NoRepeat(s) == \A i, j \in DOMAIN s : i # j => s[i] # s[j]

(***************************************************************************)
(* C3.  generate_hour_range(start, end) is start..end ascending when       *)
(* start <= end (one hour when start = end) and start..23 followed by      *)
(* 0..end when start > end, (24-start)+(end+1) hours in that case; both    *)
(* endpoints are in it and no hour is in it twice.                         *)
(***************************************************************************)
C3_HourRange ==
    (hour_range # <<>>) =>
        /\ IF start_hour <= end_hour
           THEN /\ Len(hour_range) = end_hour - start_hour + 1
                /\ \A i \in DOMAIN hour_range : hour_range[i] = start_hour + i - 1
           ELSE /\ Len(hour_range) = (24 - start_hour) + (end_hour + 1)
                /\ \A i \in 1..(24 - start_hour) :
                       hour_range[i] = start_hour + i - 1
                /\ \A i \in (24 - start_hour + 1)..Len(hour_range) :
                       hour_range[i] = i - (24 - start_hour) - 1
        /\ hour_range[1] = start_hour
        /\ hour_range[Len(hour_range)] = end_hour
        /\ NoRepeat(hour_range)
        /\ Range(hour_range) \subseteq 0..23

\* a range that wraps past midnight has been generated
C3_Witness ==
    /\ pc = "find"
    /\ start_hour = 22
    /\ end_hour = 7
    /\ hour_range = <<22, 23, 0, 1, 2, 3, 4, 5, 6, 7>>

(***************************************************************************)
(* SpecKwh: every kwh of the accepted range, in tenths.                    *)
(***************************************************************************)
KwhMin == 1

KwhMax == 1000

InitKwh ==
    InitWith(BestCalls({None}, {Some(22), Some(0)}, {Some(7), Some(23)},
                       {Some(k) : k \in KwhMin..KwhMax})
             \cup DateCalls({GET_CURRENT_PVPC_PRICES}, {None}),
             {DayResponse(CheapDay({3, 4}, 5000, 12000))})

SpecKwh == InitKwh /\ [][Next]_vars

kwh == Get(arguments.kwh, 100)

\* find_best_consecutive_hours has returned (and not raised)
FindReturned ==
    /\ name = GET_BEST_CHARGING_HOURS
    /\ pc \in {"recommend", "return"} \/ (pc = "done" /\ result # None)

\* the integer nearest to the computed quotient kwh / 7.4, the upper one when
\* the quotient is midway: the r with r - 1/2 <= q < r + 1/2, where q is
\* kwh / 74 or, when quotient_below, the double just below it
RoundHalfUpOfQuotient ==
    CHOOSE r \in 0..(KwhMax + 1) :
        IF quotient_below
        THEN 74 * (2 * r - 1) < 2 * kwh /\ 2 * kwh <= 74 * (2 * r + 1)
        ELSE 74 * (2 * r - 1) <= 2 * kwh /\ 2 * kwh < 74 * (2 * r + 1)

WindowValues == {1000, 2000, 3000}

SeriesFrom(first, values) ==
    [i \in DOMAIN values |-> Reading((first + i - 1) % 24, 1, values[i])]

WindowResponses ==
    {PvpcResponse(SeriesFrom(first, values)) :
        first \in {0, 21},
        values \in SeqsUpTo(WindowValues, MaxSeries) \ {<<>>}}

InitWindow ==
    InitWith(BestCalls({None}, {Some(0), Some(22), Some(5)},
                       {Some(23), Some(1), Some(5)},
                       {Some(1), Some(111), Some(148), Some(222), Some(1000)})
             \cup DateCalls({GET_CURRENT_PVPC_PRICES}, {None}),
             WindowResponses)

SpecWindow == InitWindow /\ [][Next]_vars

\* the hours the pair (start_hour, end_hour) allows
AllowedHours ==
    {h \in 0..23 : IF start_hour <= end_hour
                   THEN start_hour <= h /\ h <= end_hour
                   ELSE h >= start_hour \/ h <= end_hour}

RECURSIVE Restrict(_, _)
\* the entries of series whose hour is allowed, in the order of the series
Restrict(series, allowed) ==
    IF series = <<>> THEN <<>>
    ELSE (IF Head(series).hour \in allowed THEN <<Head(series)>> ELSE <<>>)
         \o Restrict(Tail(series), allowed)

\* the series restricted to the allowed hours, in ascending hour order
Filtered == Restrict(hourly_prices, AllowedHours)

\* the hours of the m entries of f that start at its i-th entry (1-based)
SliceHours(f, i, m) == [k \in 1..m |-> f[i + k - 1].hour]

\* the mean price of those entries
SliceMean(f, i, m) ==
    [sum |-> SumSeq([k \in 1..m |-> f[i + k - 1].price]), len |-> m]

(***************************************************************************)
(* C1.  find_best_consecutive_hours returns exactly min(n, |filtered|)     *)
(* hours, they are a contiguous slice of the filtered list and the mean    *)
(* returned is that slice's, and the mean is <= the mean of every          *)
(* contiguous slice of that length of the filtered list.                   *)
(***************************************************************************)
C1_CheapestSlice ==
    FindReturned =>
        LET f == Filtered
            m == Min(hours_needed, Len(f))
            starts == 1..(Len(f) - m + 1)
        IN  /\ f # <<>>
            /\ Len(best_hours) = m
            /\ \E i \in starts :
                  /\ best_hours = SliceHours(f, i, m)
                  /\ best_avg_price = SliceMean(f, i, m)
            /\ \A j \in starts : LessOrEqual(best_avg_price, SliceMean(f, j, m))

\* a 2-hour window strictly cheaper than the first and than the last slice
C1_Witness ==
    /\ pc = "recommend"
    /\ hours_needed = 2
    /\ LET f == Filtered
       IN  /\ Len(f) >= 4
           /\ Less(best_avg_price, SliceMean(f, 1, 2))
           /\ Less(best_avg_price, SliceMean(f, Len(f) - 1, 2))

(***************************************************************************)
(* C2.  Among slices with the same minimal mean the one that starts first  *)
(* in the filtered list is returned: no slice starting at a lower index    *)
(* has a mean equal to or below the returned mean.                         *)
(***************************************************************************)
C2_FirstOfEqual ==
    FindReturned =>
        LET f == Filtered
            m == Min(hours_needed, Len(f))
            starts == 1..(Len(f) - m + 1)
        IN  \E i \in starts :
                /\ best_hours = SliceHours(f, i, m)
                /\ best_avg_price = SliceMean(f, i, m)
                /\ \A j \in 1..(i - 1) : Less(best_avg_price, SliceMean(f, j, m))

\* two slices tie for the minimum and the earlier one is returned
C2_Witness ==
    /\ pc = "recommend"
    /\ LET f == Filtered
           m == Min(hours_needed, Len(f))
           starts == 1..(Len(f) - m + 1)
       IN  \E i, j \in starts :
              /\ i < j
              /\ SliceMean(f, i, m) = SliceMean(f, j, m)
              /\ SliceMean(f, i, m) = best_avg_price
              /\ best_hours = SliceHours(f, i, m)
              /\ best_hours # SliceHours(f, j, m)


(***************************************************************************)
(* SpecDay: complete days of 24 hourly prices.  Either every hour costs    *)
(* 0.12 but one or two cheap hours at 0.05, or the day is the one of the   *)
(* scenario of C7 with some price for the hours 8..21 it leaves open.      *)
(***************************************************************************)
ScenarioPrices ==
    [h \in {22, 23} \cup 0..7 |->
        IF h \in {22, 23} THEN 10000
        ELSE IF h = 0 THEN 30000
        ELSE IF h \in 1..3 THEN 5000
        ELSE 40000]

ScenarioDay(other) ==
    [h \in 0..23 |-> IF h \in DOMAIN ScenarioPrices THEN ScenarioPrices[h] ELSE other]

CheapHourSets ==
    {c \in SUBSET {0, 6, 7, 8, 21, 22, 23} : Cardinality(c) \in 1..2}

DayResponses ==
    {DayResponse(CheapDay(c, 5000, 12000)) : c \in CheapHourSets}
    \cup {DayResponse(ScenarioDay(other)) : other \in {3000, 20000, 45000}}

InitDay ==
    InitWith(BestCalls({None}, {Some(22), Some(0), Some(8)},
                       {Some(7), Some(23), Some(18)},
                       {Some(100), Some(148), Some(222), Some(1000)})
             \cup DateCalls({GET_CURRENT_PVPC_PRICES}, {None}),
             DayResponses)

SpecDay == InitDay /\ [][Next]_vars

\* the parsed series has one price for each of the 24 hours
CompleteDay ==
    /\ Len(hourly_prices) = 24
    /\ \A i \in 1..24 : hourly_prices[i].hour = i - 1

(***************************************************************************)
(* C6.  For a complete day, whatever start_hour, end_hour (wrapping past   *)
(* midnight or not) and window length, the hours returned are consecutive  *)
(* by calendar adjacency honoring wraparound: each hour after the first is *)
(* (previous hour + 1) mod 24.                                             *)
(***************************************************************************)
C6_CalendarAdjacent ==
    (FindReturned /\ CompleteDay) =>
        \A i \in 2..Len(best_hours) :
            best_hours[i] = (best_hours[i - 1] + 1) % 24

\* the parsed series gives the hours of the scenario their prices
IsScenarioSeries ==
    \A h \in DOMAIN ScenarioPrices :
        /\ Cardinality({i \in DOMAIN hourly_prices : hourly_prices[i].hour = h}) = 1
        /\ \A i \in DOMAIN hourly_prices :
              hourly_prices[i].hour = h => hourly_prices[i].price = ScenarioPrices[h]

IsScenario ==
    /\ FindReturned
    /\ start_hour = 22
    /\ end_hour = 7
    /\ kwh = 148
    /\ IsScenarioSeries

\* the window, its mean and the cost as the finished call reports them
Reports(hours, price4, cents) ==
    (pc = "done") =>
        /\ The(result).recommended_hours = [i \in DOMAIN hours |-> FormatHour(hours[i])]
        /\ The(result).average_price_eur_kwh = price4
        /\ The(result).total_cost_eur = cents

(***************************************************************************)
(* C7, as stated.  In the scenario n = 2, the window is hours [0, 1] with  *)
(* mean price 0.05, and the total cost is 0.74.                            *)
(***************************************************************************)
C7_AsStated ==
    IsScenario =>
        /\ hours_needed = 2
        /\ best_hours = <<0, 1>>
        /\ best_avg_price = [sum |-> 10000, len |-> 2]
        /\ Reports(<<0, 1>>, 500, 74)

(***************************************************************************)
(* C7, amended.  In the scenario n = 2, the window is hours [1, 2] (the    *)
(* first 2-hour slice with the minimal mean; hours 0 and 1 average 0.175), *)
(* its mean price is 0.05, and the total cost is 0.74.                     *)
(***************************************************************************)
C7_Scenario ==
    IsScenario =>
        /\ hours_needed = 2
        /\ best_hours = <<1, 2>>
        /\ best_avg_price = [sum |-> 10000, len |-> 2]
        /\ Reports(<<1, 2>>, 500, 74)

\* the call of the scenario has returned its recommendation
C7_Witness ==
    /\ IsScenario
    /\ pc = "done"
    /\ raised = None


(***************************************************************************)
(* SpecFetch: 200 answers bundling up to MaxBundle series whose type is    *)
(* missing, "PVPC", "PVPC2" or "spot", whose id is missing, "6" or         *)
(* "xPVPC", and whose readings are missing, empty or present.              *)
(***************************************************************************)
ItemTypes ==
    {None, Some(PVPC), Some(<<"P", "V", "P", "C", "2">>),
     Some(<<"s", "p", "o", "t">>)}

ItemIds == {None, Some(<<"6">>), Some(<<"x", "P", "V", "P", "C">>)}

ItemValues == {None, Some(<<>>), Some(<<Reading(0, 1, 5000)>>)}

Items == {Item(t, i, v) : t \in ItemTypes, i \in ItemIds, v \in ItemValues}

FetchResponses ==
    {OkResponse(b) : b \in SeqsUpTo(Items, MaxBundle)}
    \cup {Response("ok", 200, "object", None)}

InitFetch ==
    InitWith(BestCalls({None}, {Some(22)}, {Some(7)}, {Some(148)})
             \cup DateCalls({GET_CURRENT_PVPC_PRICES}, {None}),
             FetchResponses)

SpecFetch == InitFetch /\ [][Next]_vars

\* the answer is a 200 whose body is a JSON object
Usable200 ==
    /\ upstream.net = "ok"
    /\ upstream.status_code = 200
    /\ upstream.json = "object"

included == Get(upstream.included, <<>>)

HasReadings(item) == Get(item.values, <<>>) # <<>>

\* get_pvpc_prices has returned an entry
FetchReturned == pvpc_data # None

\* get_pvpc_prices has raised
FetchRaised == raised # None /\ pvpc_data = None /\ date # <<>>

FetchRaisedNoData ==
    /\ FetchRaised
    /\ The(raised).type = "McpError"
    /\ The(raised).message.text \in {"No price data available for date ",
                                     "No PVPC data available for date "}

\* the type is exactly the marker, or the id contains it
TypeIsOrIdContainsMarker(item) ==
    \/ item.type = Some(PVPC)
    \/ (item.id # None /\ Contains(The(item.id), PVPC))

(***************************************************************************)
(* C8, as stated.  On a 200 answer an entry is the PVPC series when its    *)
(* type or its id contains "PVPC"; the fetch fails with the no-data error  *)
(* exactly when no entry with readings matches that rule, and otherwise    *)
(* succeeds and returns a matching entry.                                  *)
(***************************************************************************)
C8_AsStated ==
    (Usable200 /\ (FetchReturned \/ FetchRaised)) =>
        /\ FetchReturned <=>
              \E i \in DOMAIN included :
                  IsPvpcTypeOrIdContains(included[i]) /\ HasReadings(included[i])
        /\ FetchReturned => IsPvpcTypeOrIdContains(The(pvpc_data))
        /\ FetchRaised => FetchRaisedNoData

(***************************************************************************)
(* C8, amended.  On a 200 answer the PVPC series is the first entry whose  *)
(* type equals "PVPC" or whose id contains "PVPC"; the fetch fails with    *)
(* the no-data error exactly when the bundle is empty or missing, no entry *)
(* matches that rule, or the first entry matching it has no readings; when *)
(* the first matching entry has readings the fetch succeeds and returns    *)
(* that entry.                                                             *)
(***************************************************************************)
C8_FirstMatch ==
    (Usable200 /\ (FetchReturned \/ FetchRaised)) =>
        LET matching == {i \in DOMAIN included : TypeIsOrIdContainsMarker(included[i])}
            first == CHOOSE i \in matching : \A j \in matching : i <= j
        IN  /\ FetchReturned <=> (matching # {} /\ HasReadings(included[first]))
            /\ FetchReturned => pvpc_data = Some(included[first])
            /\ FetchRaised => FetchRaisedNoData

\* the second entry, matched by its id, is returned although the first one has
\* readings and a type that contains the marker
C8_Witness ==
    /\ Usable200
    /\ FetchReturned
    /\ Len(included) = 2
    /\ included[1].type = Some(<<"P", "V", "P", "C", "2">>)
    /\ HasReadings(included[1])
    /\ included[2].type # Some(PVPC)
    /\ pvpc_data = Some(included[2])

(***************************************************************************)
(* SpecParse: payloads of up to MaxReadings readings, in any order, at     *)
(* distinct times of 2024-10-27:                                           *)
(* 00:00, 23:00 and at the 02:00 that a day ending summer time has twice   *)
(* (02:00+02:00 and 02:00+01:00), with prices of 0.00004, 0.00014 and      *)
(* 0.05 EUR/kWh.                                                           *)
(***************************************************************************)
Timestamps == {<<0, 2>>, <<2, 2>>, <<2, 1>>, <<23, 1>>}

ParseValues == {4, 14, 5000}

Readings == {Reading(t[1], t[2], v) : t \in Timestamps, v \in ParseValues}

\* each reading of a payload is of another hour of the day
DistinctTimes(values) ==
    \A i, j \in DOMAIN values :
        i # j => values[i].datetime # values[j].datetime

ParseResponses ==
    {PvpcResponse(values) :
        values \in {v \in SeqsUpTo(Readings, MaxReadings) :
                        v # <<>> /\ DistinctTimes(v)}}

InitParse ==
    InitWith(BestCalls({None}, {Some(22)}, {Some(7)}, {Some(148)})
             \cup DateCalls({GET_CURRENT_PVPC_PRICES}, {None}),
             ParseResponses)

SpecParse == InitParse /\ [][Next]_vars

(***************************************************************************)
(* C9.  The series parse_hourly_prices returns is sorted ascending by      *)
(* hour, every hour lies in 0..23, and no hour appears more than once.     *)
(***************************************************************************)
C9_SortedUniqueHours ==
    (hourly_prices # <<>>) =>
        /\ \A i, j \in DOMAIN hourly_prices :
              i < j => hourly_prices[i].hour <= hourly_prices[j].hour
        /\ \A i \in DOMAIN hourly_prices : hourly_prices[i].hour \in 0..23
        /\ NoRepeat([i \in DOMAIN hourly_prices |-> hourly_prices[i].hour])

Abs(x) == IF x < 0 THEN -x ELSE x

\* get_current_pvpc_prices has returned its summary
SummaryReturned ==
    /\ name = GET_CURRENT_PVPC_PRICES
    /\ pc = "done"
    /\ result # None

\* the sum and the number of the hourly prices of the result (4 decimals each)
ReturnedTotal ==
    SumSeq([i \in DOMAIN The(result).hourly_prices |->
               The(result).hourly_prices[i].price_eur_kwh])

ReturnedCount == Len(The(result).hourly_prices)

\* r is the mean of the returned prices rounded to 4 decimals (either
\* neighbour when the mean lies midway between two)
IsRoundedMeanOfReturned(r) == 2 * Abs(r * ReturnedCount - ReturnedTotal) <= ReturnedCount

(***************************************************************************)
(* C10, as stated.  average_price equals the arithmetic mean of the        *)
(* hourly prices returned in the same result (each already rounded to 4    *)
(* decimals), rounded to 4 decimals.                                       *)
(***************************************************************************)
C10_AsStated ==
    SummaryReturned => IsRoundedMeanOfReturned(The(result).average_price)

(***************************************************************************)
(* C10, amended.  average_price equals the arithmetic mean of the parsed,  *)
(* unrounded hourly prices, rounded to 4 decimals; it is within 0.0001 of  *)
(* the rounded mean of the returned (rounded) prices.                      *)
(***************************************************************************)
C10_MeanOfUnrounded ==
    SummaryReturned =>
        /\ The(result).average_price =
              RoundHalfEven(SumSeq([i \in DOMAIN hourly_prices |->
                                       hourly_prices[i].price]),
                            10 * Len(hourly_prices))
        /\ \E r \in (The(result).average_price - 1)..(The(result).average_price + 1) :
              IsRoundedMeanOfReturned(r)

\* a summary whose average_price is not the rounded mean of its rounded prices
C10_Witness ==
    /\ SummaryReturned
    /\ ReturnedCount = 3
    /\ ~IsRoundedMeanOfReturned(The(result).average_price)

====
